---- MODULE Spec2Model ----
(***************************************************************************)
(* Model of base_node_rpc/bootloader_driver.py: the twiboot codec          *)
(* (TwiBootloader.read_chip_info, read_flash, read_eeprom, write_flash,   *)
(* write_eeprom) and the firmware page writer (TwiBootloader               *)
(* .write_firmware, load_pages).                                           *)
(*                                                                         *)
(* The proxy (i2c_write / i2c_read) and the device behind it are the       *)
(* environment: every transaction may raise.  Under write_firmware a read  *)
(* may return any byte sequence of any length; in a codec session the      *)
(* device answers as twiboot does, from its memory pointer.  numpy         *)
(* semantics are those of the numpy 1.x line the driver was written for   *)
(* (Python 2 era): an array compared with a list of a shape that does not  *)
(* broadcast yields the plain bool False, whose .all() raises the          *)
(* AttributeError that write_firmware catches; int * numpy.uint8 is        *)
(* computed without wrap-around.                                           *)
(*                                                                         *)
(* Progress output (print) is not part of the state.                       *)
(***************************************************************************)
EXTENDS Integers, Sequences, FiniteSets, TLC

\* ---------------------------------------------------------------- bounds
\* Longest firmware image (data bytes of the HEX file).
MaxLen == 3
\* Largest page size the device reports (page_size is byte 3 of the reply).
MaxPageSize == 2
\* Most codec calls made in one codec session.
MaxCalls == 3
\* ------------------------------------------------------ program constants
\* bootloader_address=0x29
DefaultAddress == 41
\* num=10 of np.logspace: the number of delays, hence attempts per page.
NumDelays == 10
\* Fill byte of the last page.
PadByte == 255

\* Byte values the images and the readbacks are drawn from.
ByteVals == {1, PadByte}

\* Base delays (delay_s) tried, in milliseconds: 0.005 s and 0.02 s.
DelayChoices == {5, 20}

Max(a, b) == IF a >= b THEN a ELSE b

\* All sequences over S of length 0..n.
SeqsUpTo(S, n) == UNION {[1..k -> S] : k \in 0..n}

\* l[a:b] of Python for 0 <= a: the elements with 0-based index in [a, b).
Slice(l, a, b) == SubSeq(l, a + 1, IF b > Len(l) THEN Len(l) ELSE b)

\* [x] * n of Python.
Repeat(x, n) == [k \in 1..(IF n > 0 THEN n ELSE 0) |-> x]

\* ------------------------------------------------------------------ codec
\* _data_as_list: a list is returned as it is (the ndarray and str branches
\* convert to the list of byte values); write_firmware passes lists.
data_as_list(data) == data

\* addrh with a shift of 7 bits.
addrh_shift7(address) == (address \div 128) % 256

\* addrh = address >> 8 & 0xFF ; addrl = address & 0xFF
addrh(address) == (address \div 256) % 256
addrl(address) == address % 256

\* i * chip_info['page_size']: where write_firmware writes and reads page i.
page_address_one_based(index, size) == (index + 1) * size
page_address(index, size) == index * size

\* write_flash with the two address bytes in the wrong order.
write_flash_bytes_swapped(address, page) ==
    <<2, 1, addrl(address), addrh(address)>> \o data_as_list(page)

\* The bytes write_flash hands to proxy.i2c_write.
write_flash_bytes(address, page) ==
    <<2, 1, addrh(address), addrl(address)>> \o data_as_list(page)

\* The bytes read_flash hands to proxy.i2c_write before it reads.
read_flash_bytes(address) == <<2, 1, addrh(address), addrl(address)>>

\* The bytes read_eeprom hands to proxy.i2c_write before it reads.
read_eeprom_bytes(address) == <<2, 2, addrh(address), addrl(address)>>

\* write_eeprom with the region code of the flash.
write_eeprom_bytes_flash_region(address, data) ==
    <<2, 1, addrh(address), addrl(address)>> \o data_as_list(data)

\* The bytes write_eeprom hands to proxy.i2c_write.
write_eeprom_bytes(address, data) ==
    <<2, 2, addrh(address), addrl(address)>> \o data_as_list(data)

\* The bytes read_chip_info hands to proxy.i2c_write.
read_chip_info_bytes == <<2, 0, 0, 0>>

\* struct.unpack('<H', b)[0]: the little-endian reading.
unpack_H_little(b) == b[1] + 256 * b[2]

\* struct.unpack('>H', b)[0]
unpack_H(b) == 256 * b[1] + b[2]

\* The dict read_chip_info builds from the 8 bytes read.
decode_chip_info(data) ==
    [signature   |-> SubSeq(data, 1, 3),
     page_size   |-> data[4],
     flash_size  |-> unpack_H(SubSeq(data, 5, 6)),
     eeprom_size |-> unpack_H(SubSeq(data, 7, 8))]

\* ------------------------------------------------------------- load_pages
\* pages = [data_bytes[i:i + page_size] for i in range(0, len, page_size)]
\* followed by pages[-1].extend([0xFF] * (page_size - len(pages[-1]))).
\* Defined for page_size > 0 and a non-empty data_bytes; the two other
\* cases raise and are handled by the action LoadPages.
n_chunks(data_bytes, page_size) ==
    (Len(data_bytes) + page_size - 1) \div page_size

chunks(data_bytes, page_size) ==
    [k \in 1..n_chunks(data_bytes, page_size) |->
        Slice(data_bytes, (k - 1) * page_size, k * page_size)]

pad_last(pages, page_size) ==
    [k \in 1..Len(pages) |->
        IF k = Len(pages)
        THEN pages[k] \o Repeat(PadByte, page_size - Len(pages[k]))
        ELSE pages[k]]

load_pages(data_bytes, page_size) ==
    pad_last(chunks(data_bytes, page_size), page_size)

\* --------------------------------------------------------- retry schedule
\* max_delay = max(1., 100. * delay_s), in milliseconds.
max_delay(delay_ms) == Max(1000, 100 * delay_ms)

\* np.logspace(log10(lo), log10(hi), num=10, base=10): element k (0-based)
\* is 10 ** (log10(lo) + k * (log10(hi) - log10(lo)) / 9), that is
\* lo^((9-k)/9) * hi^(k/9).  A duration is kept in this exact form as the
\* record [lo, hi, k, n], the value lo^((n-k)/n) * hi^(k/n) with n = num - 1;
\* it is lo for k = 0 and hi for k = n.  The rounding of the float64
\* operations is not modelled.
\* np.logspace with endpoint=False: the step is (stop - start) / num.
logspace_no_endpoint(lo, hi, num) ==
    [k \in 1..num |-> [lo |-> lo, hi |-> hi, k |-> k - 1, n |-> num]]
logspace(lo, hi, num) ==
    [k \in 1..num |-> [lo |-> lo, hi |-> hi, k |-> k - 1, n |-> num - 1]]

\* Whether duration d is exactly ms milliseconds.
IsMs(d, ms) ==
    \/ d.k = 0 /\ d.lo = ms
    \/ d.k = d.n /\ d.hi = ms
    \/ d.lo = d.hi /\ d.lo = ms

\* d1 <= d2 for two durations of one schedule.
DurLeq(d1, d2) ==
    IF d1.lo <= d1.hi THEN d1.k <= d2.k ELSE d1.k >= d2.k

\* ------------------------------------------------------------ comparison
\* (verify_data_i == page_i).all() inside try/except AttributeError, with
\* verify_data_i a numpy array and page_i a list.  Shapes (m,) and (n,)
\* broadcast when m = n, m = 1 or n = 1; the result is compared element by
\* element after stretching the length-1 operand, and .all() of an empty
\* result is True.  Shapes that do not broadcast give False, False.all()
\* raises AttributeError, and the except clause passes: no match.
broadcasts(m, n) == m = n \/ m = 1 \/ n = 1

\* The comparison with != in place of ==.
verify_match_inverted(verify_data, page) ==
    LET m == Len(verify_data)
        n == Len(page)
    IN  /\ broadcasts(m, n)
        /\ IF m = n
           THEN \A k \in 1..n : verify_data[k] # page[k]
           ELSE IF n = 1
                THEN \A k \in 1..m : verify_data[k] # page[1]
                ELSE \A k \in 1..n : verify_data[1] # page[k]

verify_match(verify_data, page) ==
    LET m == Len(verify_data)
        n == Len(page)
    IN  /\ broadcasts(m, n)
        /\ IF m = n
           THEN \A k \in 1..n : verify_data[k] = page[k]
           ELSE IF n = 1
                THEN \A k \in 1..m : verify_data[k] = page[1]
                ELSE \A k \in 1..n : verify_data[1] = page[k]

\* ------------------------------------------------------------------ state
VARIABLES
    \* arguments of write_firmware and the world it runs in
    firmware,        \* the file at firmware_path: [status, data]
    verify,          \* the verify argument
    delay_s,         \* the delay_s argument, in milliseconds
    device_info,     \* the 8 bytes the device answers to the chip-info query
    flash,           \* the device's flash memory, by address
    \* locals of write_firmware
    pc,              \* position in write_firmware
    chip_info,       \* result of read_chip_info()
    pages,           \* result of load_pages()
    delay_durations, \* the retry schedule
    i,               \* index of the page being written (0-based)
    j,               \* position in delay_durations (1-based)
    verify_data_i,   \* what read_flash returned in this attempt
    error,           \* the exception write_firmware raised
    \* what an observer of the proxy has seen
    n_i2c,           \* proxy.i2c_write / i2c_read calls issued
    n_write_flash,   \* write_flash calls issued
    n_read_flash,    \* read_flash calls issued
    attempt,         \* the steps of the attempt under way, in order
    last_address,    \* address argument of the last write_flash
    page_writes,     \* consecutive write_flash calls at last_address
    top_address,     \* highest address of any write_flash or read_flash
    verified,        \* pages whose readback was byte-exact, length included
    accepted,        \* pages the retry loop left through break
    all_differ,      \* every readback so far differed from the page written
    all_echo,        \* every readback so far was what the flash holds there
    failed,          \* a proxy call has raised
    \* a session of codec calls on a TwiBootloader
    bootloader_address, \* self.bootloader_address
    eeprom,          \* the device's EEPROM, by address
    selected,        \* the device's memory pointer: [region, address]
    wide,            \* the session draws addresses from the whole range
    calls_left,      \* codec calls the session may still make
    cpc,             \* position in the codec call under way
    call,            \* the codec call under way: [name, address, data, n]
    bus,             \* the proxy calls of this codec call, in order
    reply,           \* what the last i2c_read returned
    result,          \* what the codec call returned
    info_seen        \* read_chip_info results since the last memory write

args     == <<firmware, verify, delay_s, device_info>>
locals   == <<pc, chip_info, pages, delay_durations, i, j, verify_data_i, error>>
observed == <<n_i2c, n_write_flash, n_read_flash, attempt, last_address,
              page_writes, top_address, verified, accepted, all_differ,
              all_echo, failed>>
codec    == <<bootloader_address, eeprom, selected, wide, calls_left, cpc, call,
              bus, reply, result, info_seen>>
vars     == <<args, flash, locals, observed, codec>>

\* The value of a local that has not been assigned, and of "no address".
None == 0 - 1

\* Highest flash address the bounded images can touch.
FlashTop == 2 * (MaxLen + MaxPageSize)

\* The files write_firmware may be pointed at: one that cannot be opened or
\* read, one the HEX parser rejects, and the parsed images (the bytes of the
\* type-0 records, in file order).
Firmwares ==
    {[status |-> "unreadable", data |-> <<>>],
     [status |-> "unparsable", data |-> <<>>]}
    \cup {[status |-> "ok", data |-> s] : s \in SeqsUpTo(ByteVals, MaxLen)}

\* The chip-info replies: an ATmega328P-like reply with each page size.
DeviceInfos == {<<30, 149, 15, ps, 128, 0, 4, 0>> : ps \in 0..MaxPageSize}

\* What i2c_read may return when n_bytes are asked for: nothing, fewer bytes,
\* n_bytes, or one byte more.
Readbacks(n_bytes) == SeqsUpTo(ByteVals, n_bytes + 1)

\* ------------------------------------------------------------- exceptions
NoError == [type |-> "none", msg |-> "", page |-> None]

\* Whatever the proxy raises; it passes through write_firmware untouched.
TransportError == [type |-> "TransportError", msg |-> "", page |-> None]

\* firmware_path.open('r') / input_.read() failing.
FileError == [type |-> "IOError", msg |-> "open", page |-> None]

\* parse_intel_hex(data) failing.
ParseError == [type |-> "ParseError", msg |-> "", page |-> None]

\* range(0, len(data_bytes), 0)
RangeStepError ==
    [type |-> "ValueError", msg |-> "range() arg 3 must not be zero",
     page |-> None]

\* pages[-1] of an empty list
EmptyPagesError ==
    [type |-> "IndexError", msg |-> "list index out of range", page |-> None]

\* raise IOError('Page write failed to verify for **all** attempted delay
\* durations.'): a literal message, no page index in it.
ExhaustedMsg ==
    "Page write failed to verify for **all** attempted delay durations."
\* The same error with the page index formatted into it.
ExhaustedError_indexed == [type |-> "IOError", msg |-> ExhaustedMsg, page |-> i]
ExhaustedError == [type |-> "IOError", msg |-> ExhaustedMsg, page |-> None]

\* ----------------------------------------------------------------- device
\* The device stores the payload of a flash write at the address of the
\* header, byte by byte.
WireAddress(bytes) == 256 * bytes[3] + bytes[4]

Store(mem, bytes) ==
    [a \in DOMAIN mem |->
        LET k == a - WireAddress(bytes)
        IN  IF k >= 0 /\ k < Len(bytes) - 4 THEN bytes[5 + k] ELSE mem[a]]

\* The n bytes the flash holds from address a on.
Held(mem, a, n) ==
    [k \in 1..n |-> IF a + k - 1 \in DOMAIN mem THEN mem[a + k - 1] ELSE PadByte]

\* ------------------------------------------------------------------ steps
NoDuration == [lo |-> 0, hi |-> 0, k |-> 0, n |-> 0]
Step(op, address, n, d) == [op |-> op, address |-> address, n |-> n, d |-> d]

page_size == chip_info.page_size
page_i    == pages[i + 1]
delay_j   == delay_durations[j]

\* No codec session: write_firmware makes its own calls.
NoOp == [name |-> "none", address |-> None, data |-> <<>>, n |-> 0]
NoResult == [kind |-> "none", data |-> <<>>,
             info |-> decode_chip_info(<<0, 0, 0, 0, 0, 0, 0, 0>>)]
BlankMemory == [a \in 0..FlashTop |-> PadByte]

CodecIdle ==
    /\ bootloader_address = DefaultAddress
    /\ eeprom = BlankMemory
    /\ selected = [region |-> 0, address |-> 0]
    /\ cpc = "idle"
    /\ call = NoOp
    /\ bus = <<>>
    /\ reply = <<>>
    /\ result = NoResult
    /\ info_seen = <<>>

Init ==
    /\ CodecIdle
    /\ wide = FALSE
    /\ calls_left = 0
    /\ firmware \in Firmwares
    /\ verify \in BOOLEAN
    /\ delay_s \in DelayChoices
    /\ device_info \in DeviceInfos
    /\ flash = [a \in 0..FlashTop |-> PadByte]
    /\ pc = "read_chip_info"
    /\ chip_info = decode_chip_info(<<0, 0, 0, 0, 0, 0, 0, 0>>)
    /\ pages = <<>>
    /\ delay_durations = <<>>
    /\ i = 0
    /\ j = 1
    /\ verify_data_i = <<>>
    /\ error = NoError
    /\ n_i2c = 0
    /\ n_write_flash = 0
    /\ n_read_flash = 0
    /\ attempt = <<>>
    /\ last_address = None
    /\ page_writes = 0
    /\ top_address = None
    /\ verified = {}
    /\ accepted = {}
    /\ all_differ = TRUE
    /\ all_echo = TRUE
    /\ failed = FALSE

\* An exception leaves write_firmware: nothing of it runs afterwards.
Raise(e) == pc' = "raised" /\ error' = e

\* The page loop with one schedule iterator shared by all pages: the next
\* page goes on where the page before stopped.
NextPage_shared_schedule ==
    IF i + 1 < Len(pages)
    THEN pc' = "write_flash" /\ i' = i + 1 /\ UNCHANGED j
    ELSE pc' = "done" /\ UNCHANGED <<i, j>>

\* The for loop over pages moves on (after a break of the inner loop) or ends.
NextPage ==
    IF i + 1 < Len(pages)
    THEN pc' = "write_flash" /\ i' = i + 1 /\ j' = 1
    ELSE pc' = "done" /\ UNCHANGED <<i, j>>

\* read_chip_info, first half: i2c_write(bootloader_address, [2, 0, 0, 0]).
ReadChipInfoWrite ==
    /\ pc = "read_chip_info"
    /\ n_i2c' = n_i2c + 1
    /\ \/ pc' = "read_chip_info_read" /\ UNCHANGED <<error, failed>>
       \/ Raise(TransportError) /\ failed' = TRUE
    /\ UNCHANGED <<codec, args, flash, chip_info, pages, delay_durations, i, j,
                   verify_data_i, n_write_flash, n_read_flash, attempt,
                   last_address, page_writes, top_address, verified, accepted,
                   all_differ, all_echo>>

\* read_chip_info, second half: data = i2c_read(bootloader_address, 8) and
\* the dict built from it.
ReadChipInfoRead ==
    /\ pc = "read_chip_info_read"
    /\ n_i2c' = n_i2c + 1
    /\ \/ /\ chip_info' = decode_chip_info(device_info)
          /\ pc' = "load_pages"
          /\ UNCHANGED <<error, failed>>
       \/ Raise(TransportError) /\ failed' = TRUE /\ UNCHANGED chip_info
    /\ UNCHANGED <<codec, args, flash, pages, delay_durations, i, j, verify_data_i,
                   n_write_flash, n_read_flash, attempt, last_address,
                   page_writes, top_address, verified, accepted, all_differ,
                   all_echo>>

\* load_pages with the failure to read or parse the file swallowed (the file
\* taken as one blank byte).
LoadPages_lenient ==
    /\ pc = "load_pages"
    /\ IF page_size = 0
       THEN Raise(RangeStepError) /\ UNCHANGED <<pages, delay_durations>>
       ELSE /\ pages' = load_pages(IF firmware.status = "ok" /\ Len(firmware.data) > 0
                                   THEN firmware.data ELSE <<PadByte>>,
                                   page_size)
            /\ delay_durations' = logspace(delay_s, max_delay(delay_s), NumDelays)
            /\ pc' = "write_flash"
            /\ UNCHANGED error
    /\ UNCHANGED <<codec, args, flash, chip_info, i, j, verify_data_i, observed>>

\* load_pages slicing with a step of max(page_size, 0) that does not raise
\* for page_size 0 and yields the data as one page.
LoadPages_zero_page ==
    /\ pc = "load_pages"
    /\ IF firmware.status = "unreadable"
       THEN Raise(FileError) /\ UNCHANGED <<pages, delay_durations>>
       ELSE IF firmware.status = "unparsable"
       THEN Raise(ParseError) /\ UNCHANGED <<pages, delay_durations>>
       ELSE IF Len(firmware.data) = 0
       THEN Raise(EmptyPagesError) /\ UNCHANGED <<pages, delay_durations>>
       ELSE /\ pages' = IF page_size = 0 THEN <<firmware.data>>
                        ELSE load_pages(firmware.data, page_size)
            /\ delay_durations' = logspace(delay_s, max_delay(delay_s), NumDelays)
            /\ pc' = "write_flash"
            /\ UNCHANGED error
    /\ UNCHANGED <<codec, args, flash, chip_info, i, j, verify_data_i, observed>>

\* pages = load_pages(firmware_path, chip_info['page_size']), then max_delay
\* and delay_durations, then the entry of the page loop.  load_pages opens
\* and reads the file, parses it, slices the data bytes with
\* range(0, len, page_size) and pads pages[-1]; each of these may raise.
LoadPages ==
    /\ pc = "load_pages"
    /\ IF firmware.status = "unreadable"
       THEN Raise(FileError) /\ UNCHANGED <<pages, delay_durations>>
       ELSE IF firmware.status = "unparsable"
       THEN Raise(ParseError) /\ UNCHANGED <<pages, delay_durations>>
       ELSE IF page_size = 0
       THEN Raise(RangeStepError) /\ UNCHANGED <<pages, delay_durations>>
       ELSE IF Len(firmware.data) = 0
       THEN Raise(EmptyPagesError) /\ UNCHANGED <<pages, delay_durations>>
       ELSE /\ pages' = load_pages(firmware.data, page_size)
            /\ delay_durations' = logspace(delay_s, max_delay(delay_s), NumDelays)
            /\ pc' = "write_flash"
            /\ UNCHANGED error
    /\ UNCHANGED <<codec, args, flash, chip_info, i, j, verify_data_i, observed>>

\* self.write_flash(i * chip_info['page_size'], page_i): one i2c_write of
\* header and page.
WriteFlash ==
    /\ pc = "write_flash"
    /\ LET address == page_address(i, page_size)
           bytes   == write_flash_bytes(address, page_i)
       IN  /\ n_i2c' = n_i2c + 1
           /\ n_write_flash' = n_write_flash + 1
           /\ attempt' = <<Step("write_flash", address, Len(page_i), NoDuration)>>
           /\ last_address' = address
           /\ page_writes' = IF address = last_address THEN page_writes + 1 ELSE 1
           /\ top_address' = Max(top_address, address)
           /\ \/ /\ flash' = Store(flash, bytes)
                 /\ pc' = "sleep_write"
                 /\ UNCHANGED <<error, failed>>
              \/ /\ flash' \in {flash, Store(flash, bytes)}
                 /\ Raise(TransportError)
                 /\ failed' = TRUE
    /\ UNCHANGED <<codec, args, chip_info, pages, delay_durations, i, j,
                   verify_data_i, n_read_flash, verified, accepted, all_differ,
                   all_echo>>

\* The sleep after the write without the "if not verify: break".
SleepWrite_always_verify ==
    /\ pc = "sleep_write"
    /\ attempt' = Append(attempt, Step("sleep", None, 0, delay_j))
    /\ pc' = "read_flash"
    /\ UNCHANGED <<codec, args, flash, chip_info, pages, delay_durations, i, j,
                   verify_data_i, error, n_i2c, n_write_flash, n_read_flash,
                   last_address, page_writes, top_address, verified, accepted,
                   all_differ, all_echo, failed>>

\* time.sleep(delay_j) after the write, then "if not verify: break".
SleepWrite ==
    /\ pc = "sleep_write"
    /\ attempt' = Append(attempt, Step("sleep", None, 0, delay_j))
    /\ IF ~verify
       THEN accepted' = accepted \cup {i} /\ NextPage
       ELSE pc' = "read_flash" /\ UNCHANGED <<accepted, i, j>>
    /\ UNCHANGED <<codec, args, flash, chip_info, pages, delay_durations,
                   verify_data_i, error, n_i2c, n_write_flash, n_read_flash,
                   last_address, page_writes, top_address, verified,
                   all_differ, all_echo, failed>>

\* read_flash(i * page_size, page_size), first half: i2c_write of the header.
ReadFlashWrite ==
    /\ pc = "read_flash"
    /\ LET address == page_address(i, page_size)
       IN  /\ n_i2c' = n_i2c + 1
           /\ n_read_flash' = n_read_flash + 1
           /\ attempt' = Append(attempt,
                                Step("read_flash", address, page_size, NoDuration))
           /\ top_address' = Max(top_address, address)
    /\ \/ pc' = "read_flash_read" /\ UNCHANGED <<error, failed>>
       \/ Raise(TransportError) /\ failed' = TRUE
    /\ UNCHANGED <<codec, args, flash, chip_info, pages, delay_durations, i, j,
                   verify_data_i, n_write_flash, last_address, page_writes,
                   verified, accepted, all_differ, all_echo>>

\* The read with the proxy's exception caught and taken for an empty readback.
ReadFlashRead_swallow ==
    /\ pc = "read_flash_read"
    /\ n_i2c' = n_i2c + 1
    /\ \/ \E data \in Readbacks(page_size) :
            /\ verify_data_i' = data
            /\ all_differ' = (all_differ /\ data # page_i)
            /\ all_echo' =
                 (all_echo /\ data = Held(flash,
                                          WireAddress(read_flash_bytes(page_address(i, page_size))),
                                          page_size))
            /\ UNCHANGED failed
       \/ /\ verify_data_i' = <<>>
          /\ failed' = TRUE
          /\ UNCHANGED <<all_differ, all_echo>>
    /\ pc' = "sleep_read"
    /\ UNCHANGED <<codec, args, flash, chip_info, pages, delay_durations, i, j, error,
                   n_write_flash, n_read_flash, attempt, last_address,
                   page_writes, top_address, verified, accepted>>

\* read_flash, second half: verify_data_i = i2c_read(bootloader_address,
\* n_bytes).  The proxy returns whatever the bus delivered.
ReadFlashRead ==
    /\ pc = "read_flash_read"
    /\ n_i2c' = n_i2c + 1
    /\ \/ \E data \in Readbacks(page_size) :
            /\ verify_data_i' = data
            /\ all_differ' = (all_differ /\ data # page_i)
            /\ all_echo' =
                 (all_echo /\ data = Held(flash,
                                          WireAddress(read_flash_bytes(page_address(i, page_size))),
                                          page_size))
            /\ pc' = "sleep_read"
            /\ UNCHANGED <<error, failed>>
       \/ /\ Raise(TransportError)
          /\ failed' = TRUE
          /\ UNCHANGED <<verify_data_i, all_differ, all_echo>>
    /\ UNCHANGED <<codec, args, flash, chip_info, pages, delay_durations, i, j,
                   n_write_flash, n_read_flash, attempt, last_address,
                   page_writes, top_address, verified, accepted>>

\* The step after the read without its sleep.
SleepRead_skipped ==
    /\ pc = "sleep_read"
    /\ pc' = "compare"
    /\ UNCHANGED <<codec, args, flash, chip_info, pages, delay_durations, i, j,
                   verify_data_i, error, n_i2c, n_write_flash, n_read_flash,
                   attempt, last_address, page_writes, top_address, verified,
                   accepted, all_differ, all_echo, failed>>

\* time.sleep(delay_j) after the read.
SleepRead ==
    /\ pc = "sleep_read"
    /\ attempt' = Append(attempt, Step("sleep", None, 0, delay_j))
    /\ pc' = "compare"
    /\ UNCHANGED <<codec, args, flash, chip_info, pages, delay_durations, i, j,
                   verify_data_i, error, n_i2c, n_write_flash, n_read_flash,
                   last_address, page_writes, top_address, verified, accepted,
                   all_differ, all_echo, failed>>

\* The comparison in a loop that repeats the last delay instead of ending.
Compare_retry_forever ==
    /\ pc = "compare"
    /\ verify_data_i' = <<>>
    /\ attempt' = Append(attempt, Step("compare", None, 0, NoDuration))
    /\ verified' = IF verify_data_i = page_i THEN verified \cup {i} ELSE verified
    /\ IF verify_match(verify_data_i, page_i)
       THEN accepted' = accepted \cup {i} /\ NextPage /\ UNCHANGED error
       ELSE /\ pc' = "write_flash"
            /\ j' = IF j < Len(delay_durations) THEN j + 1 ELSE j
            /\ UNCHANGED <<i, accepted, error>>
    /\ UNCHANGED <<codec, args, flash, chip_info, pages, delay_durations, n_i2c,
                   n_write_flash, n_read_flash, last_address, page_writes,
                   top_address, all_differ, all_echo, failed>>

\* try: if (verify_data_i == page_i).all(): break / except AttributeError:
\* pass; then the next delay of the schedule, or the else clause of the for
\* loop: raise IOError(...).  verify_data_i is not read again before
\* read_flash assigns it anew, so it is cleared here.
Compare ==
    /\ pc = "compare"
    /\ verify_data_i' = <<>>
    /\ attempt' = Append(attempt, Step("compare", None, 0, NoDuration))
    /\ verified' = IF verify_data_i = page_i THEN verified \cup {i} ELSE verified
    /\ IF verify_match(verify_data_i, page_i)
       THEN accepted' = accepted \cup {i} /\ NextPage /\ UNCHANGED error
       ELSE IF j < Len(delay_durations)
       THEN pc' = "write_flash" /\ j' = j + 1 /\ UNCHANGED <<i, accepted, error>>
       ELSE Raise(ExhaustedError) /\ UNCHANGED <<i, j, accepted>>
    /\ UNCHANGED <<codec, args, flash, chip_info, pages, delay_durations, n_i2c,
                   n_write_flash, n_read_flash, last_address, page_writes,
                   top_address, all_differ, all_echo, failed>>

Next ==
    \/ ReadChipInfoWrite
    \/ ReadChipInfoRead
    \/ LoadPages
    \/ WriteFlash
    \/ SleepWrite
    \/ ReadFlashWrite
    \/ ReadFlashRead
    \/ SleepRead
    \/ Compare

Spec == Init /\ [][Next]_vars

TypeOK ==
    /\ pc \in {"not_called",
               "read_chip_info", "read_chip_info_read", "load_pages",
               "write_flash", "sleep_write", "read_flash", "read_flash_read",
               "sleep_read", "compare", "done", "raised"}
    /\ i \in 0..MaxLen
    /\ j \in 1..NumDelays
    /\ (pc = "raised") = (error # NoError)

\* ---------------------------------------------------------- codec session
\* A caller drives a TwiBootloader method by method.  The device is a twiboot
\* bootloader: a write that starts with 0x02 selects a memory region (0 chip
\* info, 1 flash, 2 EEPROM) and an address, bytes after the header are stored
\* there, and a read returns the bytes from the pointer on and advances it.

\* The 8-byte chip-info replies of the session: the reply of an ATmega328P,
\* a reply with page size 128, flash 1024 and EEPROM 512, and the replies
\* with one byte set to 1 or to 255 and the others 0.
InfoReplies ==
    {<<30, 149, 15, 128, 128, 0, 4, 0>>, <<1, 2, 3, 128, 4, 0, 2, 0>>}
    \cup {[k \in 1..8 |-> IF k = p THEN v ELSE 0] : p \in 1..8, v \in {1, 255}}

\* Addresses a caller passes: every 16-bit address and two beyond them, or a
\* sample with a low and a high byte that differ.
AddressPool ==
    IF wide THEN 0..(256 * 256 - 1) \cup {256 * 256, 256 * 256 + 257}
    ELSE {1, 258}

PayloadPool == IF wide THEN {<<1, 255>>} ELSE {<<1, 255>>, <<255, 1>>}

CountPool == IF wide THEN {2} ELSE {1, 2}

ReadCall(name, address, n) ==
    [name |-> name, address |-> address, data |-> <<>>, n |-> n]

WriteCall(name, address, data) ==
    [name |-> name, address |-> address, data |-> data, n |-> 0]

IsReadCall(o) == o.name \in {"read_chip_info", "read_flash", "read_eeprom"}

\* The bytes of the one i2c_write of each method.
call_bytes(o) ==
    CASE o.name = "read_chip_info" -> read_chip_info_bytes
      [] o.name = "read_flash"     -> read_flash_bytes(o.address)
      [] o.name = "read_eeprom"    -> read_eeprom_bytes(o.address)
      [] o.name = "write_flash"    -> write_flash_bytes(o.address, o.data)
      [] o.name = "write_eeprom"   -> write_eeprom_bytes(o.address, o.data)

Transaction(kind, bytes, n) ==
    [kind |-> kind, to |-> bootloader_address, bytes |-> bytes, n |-> n]

\* The device takes a write: it moves its pointer and stores the payload.
DeviceSelect(bytes) ==
    IF Len(bytes) >= 4 /\ bytes[1] = 2
    THEN [region |-> bytes[2],
          address |-> WireAddress(bytes) + (Len(bytes) - 4)]
    ELSE selected

DeviceStore(mem, region, bytes) ==
    IF Len(bytes) > 4 /\ bytes[1] = 2 /\ bytes[2] = region
    THEN Store(mem, bytes) ELSE mem

\* The device answers a read of n bytes from its pointer.
DeviceRead(n) ==
    CASE selected.region = 0 ->
            Held([a \in 0..7 |-> device_info[a + 1]], selected.address, n)
      [] selected.region = 1 -> Held(flash, selected.address, n)
      [] selected.region = 2 -> Held(eeprom, selected.address, n)
      [] OTHER -> [k \in 1..n |-> PadByte]

RaisedResult == [NoResult EXCEPT !.kind = "raised"]

\* A caller calls one of the five methods.
CodecCall ==
    /\ cpc = "idle"
    /\ calls_left > 0
    /\ \/ call' = ReadCall("read_chip_info", None, 8)
       \/ \E name \in {"read_flash", "read_eeprom"}, a \in AddressPool,
             n \in CountPool : call' = ReadCall(name, a, n)
       \/ \E name \in {"write_flash", "write_eeprom"}, a \in AddressPool,
             d \in PayloadPool : call' = WriteCall(name, a, d)
    /\ calls_left' = calls_left - 1
    /\ cpc' = "write"
    /\ bus' = <<>>
    /\ reply' = <<>>
    /\ result' = NoResult
    /\ UNCHANGED <<bootloader_address, eeprom, selected, wide, info_seen,
                   args, flash, locals, observed>>

\* read_chip_info that sends no header and reads from where the pointer is.
CodecWrite_no_info_header ==
    /\ cpc = "write"
    /\ \/ /\ call.name = "read_chip_info"
          /\ cpc' = "read"
          /\ UNCHANGED <<bus, selected, flash, eeprom, result, info_seen>>
       \/ /\ call.name # "read_chip_info"
          /\ bus' = Append(bus, Transaction("write", call_bytes(call), 0))
          /\ selected' = DeviceSelect(call_bytes(call))
          /\ flash' = DeviceStore(flash, 1, call_bytes(call))
          /\ eeprom' = DeviceStore(eeprom, 2, call_bytes(call))
          /\ cpc' = IF IsReadCall(call) THEN "read" ELSE "idle"
          /\ info_seen' = IF IsReadCall(call) THEN info_seen ELSE <<>>
          /\ UNCHANGED result
    /\ UNCHANGED <<bootloader_address, wide, calls_left, call, reply,
                   args, locals, observed>>

\* self.proxy.i2c_write(self.bootloader_address, [...]): the first statement
\* of each of the five methods, and the last one of write_flash/write_eeprom.
CodecWrite ==
    /\ cpc = "write"
    /\ bus' = Append(bus, Transaction("write", call_bytes(call), 0))
    /\ \/ /\ selected' = DeviceSelect(call_bytes(call))
          /\ flash' = DeviceStore(flash, 1, call_bytes(call))
          /\ eeprom' = DeviceStore(eeprom, 2, call_bytes(call))
          /\ cpc' = IF IsReadCall(call) THEN "read" ELSE "idle"
          /\ info_seen' = IF IsReadCall(call) THEN info_seen ELSE <<>>
          /\ UNCHANGED result
       \/ /\ cpc' = "idle"
          /\ result' = RaisedResult
          /\ UNCHANGED <<selected, flash, eeprom, info_seen>>
    /\ UNCHANGED <<bootloader_address, wide, calls_left, call, reply,
                   args, locals, observed>>

\* data = self.proxy.i2c_read(self.bootloader_address, n) and the return.
CodecRead ==
    /\ cpc = "read"
    /\ bus' = Append(bus, Transaction("read", <<>>, call.n))
    /\ cpc' = "idle"
    /\ \/ /\ reply' = DeviceRead(call.n)
          /\ selected' = [selected EXCEPT !.address = @ + call.n]
          /\ IF call.name = "read_chip_info"
             THEN /\ result' = [kind |-> "info", data |-> <<>>,
                                info |-> decode_chip_info(reply')]
                  /\ info_seen' = Append(info_seen, result'.info)
             ELSE /\ result' = [NoResult EXCEPT !.kind = "bytes",
                                                !.data = reply']
                  /\ UNCHANGED info_seen
       \/ /\ result' = RaisedResult
          /\ UNCHANGED <<reply, selected, info_seen>>
    /\ UNCHANGED <<bootloader_address, eeprom, wide, calls_left, call,
                   args, flash, locals, observed>>

CodecNext ==
    \/ CodecCall
    \/ CodecWrite
    \/ CodecRead

\* write_firmware is not called in a codec session.
WriterIdle ==
    /\ firmware = [status |-> "unreadable", data |-> <<>>]
    /\ verify = TRUE
    /\ delay_s = 20
    /\ flash = BlankMemory
    /\ pc = "not_called"
    /\ chip_info = decode_chip_info(<<0, 0, 0, 0, 0, 0, 0, 0>>)
    /\ pages = <<>>
    /\ delay_durations = <<>>
    /\ i = 0
    /\ j = 1
    /\ verify_data_i = <<>>
    /\ error = NoError
    /\ n_i2c = 0
    /\ n_write_flash = 0
    /\ n_read_flash = 0
    /\ attempt = <<>>
    /\ last_address = None
    /\ page_writes = 0
    /\ top_address = None
    /\ verified = {}
    /\ accepted = {}
    /\ all_differ = TRUE
    /\ all_echo = TRUE
    /\ failed = FALSE

\* Sessions of up to MaxCalls calls on a device with any of the replies.
CodecInit ==
    /\ CodecIdle
    /\ WriterIdle
    /\ wide = FALSE
    /\ calls_left = MaxCalls
    /\ device_info \in InfoReplies

CodecSpec == CodecInit /\ [][CodecNext]_vars

\* One call with any address.
AddressInit ==
    /\ CodecIdle
    /\ WriterIdle
    /\ wide = TRUE
    /\ calls_left = 1
    /\ device_info = <<30, 149, 15, 128, 128, 0, 4, 0>>

AddressSpec == AddressInit /\ [][CodecNext]_vars

\* ----------------------------------------------------------------- claims
AllPages == 0..(Len(pages) - 1)

\* write_firmware raised from the else clause of the retry loop: it raised
\* after writing, and not because the proxy raised.
PageExhausted == pc = "raised" /\ ~failed /\ n_write_flash > 0

\* The operations of the attempt under way, in order.
Ops(steps) == [k \in DOMAIN steps |-> steps[k].op]
FullAttempt == <<"write_flash", "sleep", "read_flash", "sleep", "compare">>
IsPrefix(s, t) == Len(s) <= Len(t) /\ s = SubSeq(t, 1, Len(s))

\* C1: with verify on and every readback different from the page written,
\* write_firmware never returns normally, touches no page above page 0, and
\* raises the exhausted error after exactly 10 writes of page 0.
C1_AlwaysMismatchFailsOnPageZero ==
    (verify /\ all_differ) =>
        /\ pc # "done"
        /\ top_address <= 0
        /\ (PageExhausted => n_write_flash = NumDelays /\ last_address = 0)

\* C2: with verify on and a device that echoes what was last written,
\* no retry is consumed: every page is written once and read once, the
\* exhausted error is never raised, and at the return N pages have taken
\* exactly N write_flash and N read_flash calls.
C2_EchoNeedsNoRetry ==
    (verify /\ all_echo) =>
        /\ j = 1
        /\ page_writes <= 1
        /\ ~PageExhausted
        /\ (pc = "done" =>
               /\ n_write_flash = Len(pages)
               /\ n_read_flash = Len(pages)
               /\ accepted = AllPages)

C2_Witness ==
    /\ verify /\ all_echo /\ pc = "done"
    /\ Len(pages) >= 2
    /\ n_read_flash = Len(pages)

\* C3: with verify on, a normal return means every page had a readback that
\* matched it exactly, and the exhausted error at page k means every page
\* below k had one and nothing above k was touched.
C3_AllVerifiedOrFirstExhausted ==
    verify =>
        /\ (pc = "done" => verified = AllPages)
        /\ (PageExhausted =>
               /\ 0..(i - 1) \subseteq verified
               /\ top_address <= i * page_size)

\* C4: every write_flash goes to address i * page_size of the page i under
\* way; the address of successive writes never decreases, and it moves on,
\* by exactly one page, only when the page before has succeeded.
C4_PagesAscend ==
    [][n_write_flash' # n_write_flash =>
         /\ last_address' = i * page_size
         /\ last_address' >= last_address
         /\ last_address' # last_address =>
               /\ last_address' = (IF last_address = None THEN 0
                                   ELSE last_address + page_size)
               /\ (i > 0 => (i - 1) \in accepted)
               /\ i \notin accepted]_vars

C4_Witness ==
    /\ pc = "sleep_write"
    /\ i = 1 /\ page_size >= 2
    /\ last_address = page_size
    /\ page_writes >= 2
    /\ n_write_flash > page_writes + 1

\* C5: with verify on, an attempt is write_flash, sleep d, read_flash of the
\* same address for page_size bytes, sleep of the same d, compare, in this
\* order; a read_flash is issued only after the write and its sleep, and a
\* write_flash only after the attempt before it has run to its compare.
C5_AttemptOrder ==
    /\ [](verify =>
            /\ IsPrefix(Ops(attempt), FullAttempt)
            /\ (Len(attempt) >= 2 =>
                   \E k \in DOMAIN delay_durations :
                       attempt[2].d = delay_durations[k])
            /\ (Len(attempt) >= 3 =>
                   /\ attempt[3].address = attempt[1].address
                   /\ attempt[3].n = page_size)
            /\ (Len(attempt) >= 4 => attempt[4].d = attempt[2].d)
            /\ (pc = "compare" => Len(attempt) = 4))
    /\ [][verify =>
            /\ (n_read_flash' # n_read_flash =>
                   Ops(attempt) = <<"write_flash", "sleep">>)
            /\ (n_write_flash' # n_write_flash /\ n_write_flash > 0 =>
                   Ops(attempt) = FullAttempt)]_vars

C5_Witness ==
    /\ verify /\ pc = "sleep_write" /\ j >= 2
    /\ n_read_flash >= 1

\* C6: with verify off, every page is written exactly once, the write is
\* followed by the first delay of the schedule, which is its shortest, no
\* read_flash is issued, and the exhausted error is never raised.
C6_NoVerifyNoRead ==
    ~verify =>
        /\ n_read_flash = 0
        /\ j = 1
        /\ page_writes <= 1
        /\ ~PageExhausted
        /\ Len(attempt) <= 2
        /\ (Len(attempt) = 2 =>
               /\ attempt[2].op = "sleep"
               /\ attempt[2].d = delay_durations[1]
               /\ \A k \in DOMAIN delay_durations :
                      DurLeq(attempt[2].d, delay_durations[k]))
        /\ (pc = "done" => n_write_flash = Len(pages) /\ accepted = AllPages)

C6_Witness ==
    /\ ~verify /\ pc = "done"
    /\ Len(pages) >= 2
    /\ n_write_flash = Len(pages)
    /\ \E a \in 0..(page_size - 1) : flash[a] # PadByte

\* C7: the comparison accepts a readback exactly when the readback has
\* page_size bytes and equals the page byte for byte.
C7_MatchIsExactEquality ==
    pc = "compare" =>
        (verify_match(verify_data_i, page_i) <=> verify_data_i = page_i)

\* C8 as stated: when the image cannot be loaded, no transaction of any
\* kind has been issued when the error is raised.
C8_LoadFailsBeforeAnyIO ==
    (pc = "raised" /\ error \in {FileError, ParseError}) => n_i2c = 0

\* C8 as amended: when the image cannot be loaded, write_firmware raises
\* after the two transactions of the chip-info query and before any flash
\* transaction; a run on such a file never issues write_flash or read_flash.
C8_LoadFailsBeforeFlashIO ==
    /\ (firmware.status # "ok" =>
           /\ n_write_flash = 0
           /\ n_read_flash = 0
           /\ pc # "done"
           /\ \A a \in DOMAIN flash : flash[a] = PadByte)
    /\ (pc = "raised" /\ error \in {FileError, ParseError} =>
           /\ firmware.status # "ok"
           /\ n_i2c = 2)

C8_Witness ==
    /\ pc = "raised"
    /\ error = ParseError
    /\ firmware.status = "unparsable"
    /\ n_i2c = 2

\* C9: once a proxy call has raised, write_firmware has raised the same
\* exception and no further transaction is issued.
C9_TransportErrorPropagates ==
    /\ [](failed => pc = "raised" /\ error = TransportError)
    /\ [][failed =>
            /\ n_i2c' = n_i2c
            /\ n_write_flash' = n_write_flash
            /\ n_read_flash' = n_read_flash]_vars

C9_Witness ==
    /\ failed /\ pc = "raised"
    /\ n_read_flash = 2 /\ n_write_flash = 2
    /\ i = 0
    /\ Len(attempt) = 3

RECURSIVE Flatten(_)
Flatten(seqs) == IF seqs = <<>> THEN <<>> ELSE Head(seqs) \o Flatten(Tail(seqs))

\* load_pages has been called: write_firmware is past it.
LoadPagesCalled ==
    /\ pc \notin {"read_chip_info", "read_chip_info_read", "load_pages"}
    /\ (failed => n_write_flash > 0)

InAttempt ==
    pc \in {"sleep_write", "read_flash", "read_flash_read", "sleep_read", "compare"}

\* C11: for a page size above 0 and any data bytes S, the empty S included,
\* load_pages returns pages of exactly page_size bytes each whose
\* concatenation is S followed by 0xFF bytes only.
C11_PagesRoundTrip ==
    (LoadPagesCalled /\ firmware.status = "ok" /\ page_size > 0) =>
        /\ error \in {NoError, TransportError, ExhaustedError}
        /\ \A k \in DOMAIN pages : Len(pages[k]) = page_size
        /\ LET S   == firmware.data
               all == Flatten(pages)
           IN  /\ Len(all) >= Len(S)
               /\ SubSeq(all, 1, Len(S)) = S
               /\ \A k \in (Len(S) + 1)..Len(all) : all[k] = PadByte

C17_BudgetPerPage ==
    /\ page_writes <= NumDelays
    /\ (InAttempt =>
           /\ j = page_writes
           /\ (Len(attempt) >= 2 => attempt[2].d = delay_durations[page_writes]))
    /\ (pc = "write_flash" /\ last_address # i * page_size => j = 1)
    /\ (PageExhausted => page_writes = NumDelays /\ i \notin accepted)

C17_Witness ==
    /\ pc = "done"
    /\ accepted = {0, 1}
    /\ i = 1
    /\ page_writes = NumDelays
    /\ n_write_flash = 2 * NumDelays

\* C18: when the chip-info reply carries page_size 0, write_firmware raises
\* out of load_pages: no page is built, no flash transaction is issued, and
\* nothing runs after the chip-info query but the failing load.
C18_ZeroPageSizeFails ==
    device_info[4] = 0 =>
        /\ pc \in {"read_chip_info", "read_chip_info_read", "load_pages", "raised"}
        /\ pages = <<>>
        /\ n_write_flash = 0
        /\ n_read_flash = 0
        /\ n_i2c <= 2
        /\ \A a \in DOMAIN flash : flash[a] = PadByte

C18_Witness ==
    /\ device_info[4] = 0
    /\ firmware.status = "ok"
    /\ Len(firmware.data) > 0
    /\ pc = "raised"
    /\ error = RangeStepError

\* How far write_firmware is from its end: the attempts left, in steps.
PcPos ==
    CASE pc = "write_flash"     -> 0
      [] pc = "sleep_write"     -> 1
      [] pc = "read_flash"      -> 2
      [] pc = "read_flash_read" -> 3
      [] pc = "sleep_read"      -> 4
      [] pc = "compare"         -> 5
      [] OTHER                  -> 0
RankTop == MaxLen * NumDelays * 6
Rank ==
    CASE pc \in {"done", "raised"}    -> 0
      [] pc = "load_pages"           -> RankTop + 1
      [] pc = "read_chip_info_read"  -> RankTop + 2
      [] pc = "read_chip_info"       -> RankTop + 3
      [] OTHER -> ((Len(pages) - i) * NumDelays - (j - 1)) * 6 - PcPos

\* C19: write_firmware issues at most 10 x N write_flash and 10 x N
\* read_flash calls, at most 10 writes of any one page, and every step
\* brings it nearer to its end, which it reaches by returning or raising.
C19_BoundedAttempts ==
    /\ [](/\ n_write_flash <= NumDelays * Len(pages)
          /\ n_read_flash <= NumDelays * Len(pages)
          /\ n_read_flash <= n_write_flash
          /\ page_writes <= NumDelays
          /\ Rank >= 0
          /\ (Rank = 0 <=> pc \in {"done", "raised"}))
    /\ [][Rank' < Rank]_vars

C19_Witness ==
    /\ pc \in {"done", "raised"}
    /\ ~failed
    /\ Len(pages) >= 2
    /\ n_write_flash = NumDelays * Len(pages)
    /\ n_read_flash = NumDelays * Len(pages)

\* C20: when write_firmware returns normally with verify on, for an image of
\* at most 65536 bytes, the flash holds from address 0 the image bytes
\* followed by the 0xFF padding of the last page.
C20_FlashHoldsImage ==
    (pc = "done" /\ verify /\ Len(firmware.data) <= 65536) =>
        LET total == Len(pages) * page_size
        IN  /\ Held(flash, 0, total) = Flatten(pages)
            /\ Held(flash, 0, total) =
                   firmware.data \o Repeat(PadByte, total - Len(firmware.data))

C20_Witness ==
    /\ pc = "done" /\ verify
    /\ Len(pages) = 2
    /\ Len(firmware.data) % page_size # 0
    /\ n_write_flash > 3
    /\ \E a \in 0..(Len(firmware.data) - 1) : flash[a] # PadByte

\* ------------------------------------------------- claims on the codec calls
\* The call under way has returned, and not by an exception.
Returned == cpc = "idle" /\ call # NoOp /\ result.kind # "raised"

TopAddress == 256 * 256 - 1

\* C13: for every address in [0, 65535], the header that read_flash,
\* read_eeprom, write_flash and write_eeprom send carries high = address >> 8
\* and low = address & 0xFF in its third and fourth byte, both are in
\* [0, 255], and (high << 8) | low is the address again.
C13_HeaderSplitsAddress ==
    (/\ call.name \in {"read_flash", "read_eeprom", "write_flash",
                       "write_eeprom"}
     /\ call.address \in 0..TopAddress
     /\ Len(bus) >= 1)
    => LET high == bus[1].bytes[3]
           low  == bus[1].bytes[4]
       IN  /\ high = call.address \div 256
           /\ low = call.address % 256
           /\ high \in 0..255
           /\ low \in 0..255
           /\ 256 * high + low = call.address

\* read_eeprom of address 0x1234 has sent the header bytes 0x12 and 0x34.
C13_Witness ==
    /\ wide
    /\ call.name = "read_eeprom"
    /\ call.address = 4660
    /\ Returned
    /\ bus[1].bytes = <<2, 2, 18, 52>>

\* C14: read_chip_info sends [0x02, 0x00, 0x00, 0x00], reads 8 bytes b and
\* returns signature = b[0..2], page_size = b[3], flash_size = 256 * b[4] +
\* b[5] and eeprom_size = 256 * b[6] + b[7]; the reply
\* [0x01, 0x02, 0x03, 0x80, 0x04, 0x00, 0x02, 0x00] decodes to signature
\* [1, 2, 3], page size 128, flash size 1024 and EEPROM size 512.
C14_ChipInfoDecode ==
    (call.name = "read_chip_info" /\ Returned)
    => /\ Len(bus) = 2
       /\ bus[1].kind = "write" /\ bus[1].bytes = <<2, 0, 0, 0>>
       /\ bus[2].kind = "read" /\ bus[2].n = 8
       /\ Len(reply) = 8
       /\ result.kind = "info"
       /\ result.info.signature = <<reply[1], reply[2], reply[3]>>
       /\ result.info.page_size = reply[4]
       /\ result.info.flash_size = 256 * reply[5] + reply[6]
       /\ result.info.eeprom_size = 256 * reply[7] + reply[8]
       /\ reply = <<1, 2, 3, 128, 4, 0, 2, 0>>
          => result.info = [signature |-> <<1, 2, 3>>, page_size |-> 128,
                            flash_size |-> 1024, eeprom_size |-> 512]

\* read_chip_info has returned what it made of the reply with page size 128.
C14_Witness ==
    /\ call.name = "read_chip_info"
    /\ Returned
    /\ reply = <<1, 2, 3, 128, 4, 0, 2, 0>>
    /\ result.info.flash_size = 1024

\* C15: the calls of read_chip_info with no write_flash or write_eeprom
\* between them return the same result, and a call of read_chip_info changes
\* neither the flash, nor the EEPROM, nor a field of the driver.
C15_ChipInfoIdempotent ==
    /\ [](\A a, b \in DOMAIN info_seen : info_seen[a] = info_seen[b])
    /\ [][(call.name = "read_chip_info" /\ cpc # "idle")
          => UNCHANGED <<flash, eeprom, bootloader_address>>]_vars

\* The last of three calls is the second read_chip_info since the session
\* began, the third call being a read of flash or EEPROM.
C15_Witness ==
    /\ calls_left = 0
    /\ call.name = "read_chip_info"
    /\ Returned
    /\ Len(info_seen) = 2

\* C16: write_flash and write_eeprom issue one write of [0x02, region,
\* addr_high, addr_low] followed by the payload in its order (region 1 for
\* flash, 2 for EEPROM) and no read; read_flash and read_eeprom issue one
\* write of the four header bytes and then one read of n_bytes; no call
\* issues a transaction a second time.
C16_OneTransactionEach ==
    LET region == IF call.name \in {"read_flash", "write_flash"} THEN 1 ELSE 2
        header == <<2, region, (call.address \div 256) % 256,
                    call.address % 256>>
    IN  /\ (call.name \in {"write_flash", "write_eeprom"} /\ Returned)
           => bus = <<[kind |-> "write", to |-> DefaultAddress,
                       bytes |-> header \o call.data, n |-> 0]>>
        /\ (call.name \in {"read_flash", "read_eeprom"} /\ Returned)
           => bus = <<[kind |-> "write", to |-> DefaultAddress,
                       bytes |-> header, n |-> 0],
                      [kind |-> "read", to |-> DefaultAddress,
                       bytes |-> <<>>, n |-> call.n]>>
        /\ Len(bus) <= (IF IsReadCall(call) THEN 2 ELSE 1)
        /\ \A a, b \in DOMAIN bus : a # b => bus[a] # bus[b]

\* write_eeprom has returned after writing two bytes at address 0x0102.
C16_Witness ==
    /\ call.name = "write_eeprom"
    /\ call.address = 258
    /\ call.data = <<255, 1>>
    /\ Returned
    /\ Len(bus) = 1
====
